---- MODULE Spec2Model ----
(***************************************************************************)
(* Model of the 3S vehicle-position fetcher/merger                         *)
(* (src/3S/lista_pos_vei_3S.py, class API3S) and of the map drawn from its *)
(* dataset file (src/3S/ver_caminhoes.py, gerar_mapa).                     *)
(*                                                                         *)
(* A VehiclePositionRecord (a Python dict decoded from JSON) is a function *)
(* from the field names it carries to their values.  Vehicle identifiers   *)
(* are integers (0 is falsy), plates are strings written as sequences of   *)
(* code points (the empty sequence is the falsy empty string), so that     *)
(* Python's string ordering is the lexicographic order on sequences.       *)
(***************************************************************************)
EXTENDS Integers, Sequences, FiniteSets, TLC

(***************************************************************************)
(* Bounds of the model.                                                    *)
(***************************************************************************)
MaxId == 2          \* vehicle identifiers sent by the API: 1..MaxId (and 0)
MaxLista == 3       \* records in the two lists first handed to the merge
MaxNovas == 1       \* records fetched by each later run of the merge
MaxDados == 3       \* records in the dataset handed to the summary
MaxExecucoes == 2   \* runs of the script, one after the other
MaxResposta == 1    \* records in one answer of the bulk request
MaxVeiculos == 2    \* records in the dataset file read by gerar_mapa
MaxChamadas == 11   \* calls made on one limiter

(***************************************************************************)
(* Constants of the program.                                               *)
(***************************************************************************)
max_chamadas_por_minuto == 9
tempo_espera == 62
max_tentativas == 3

VARIABLES
    m_pc,           \* merge harness: "entrada", "mesclado" or "idem"
    m_antigas,      \* posicoes_antigas handed to mesclar_posicoes
    m_novas,        \* posicoes_novas handed to mesclar_posicoes
    m_saida,        \* what mesclar_posicoes returned and printed
    m_salvo,        \* TRUE when m_antigas is a list an earlier merge returned
    r_pc,           \* summary harness: "entrada" or "resumido"
    r_posicoes,     \* the dataset handed to gerar_resumo
    r_resumo        \* what gerar_resumo returned

VARIABLES
    pc,                 \* position of the run in processar_todas_posicoes
    execucao,           \* number of runs started
    arquivo_posicoes,   \* posicoes_veiculos.json on disk
    arquivo_resumo,     \* veiculos_resumo.json on disk
    env_token,          \* 3S_TOKEN in the .env file
    token,              \* self.token
    contador_chamadas,  \* self.contador_chamadas
    posicoes_antigas,   \* processar_todas_posicoes: posicoes_antigas
    idx,                \* validar_login: index of the payload being tried
    formato,            \* validar_login: "json" or "form" request of that payload
    tentativa,          \* obter_todas_posicoes: tentativa
    posicoes_novas,     \* processar_todas_posicoes: posicoes_novas
    posicoes_finais,    \* processar_todas_posicoes: posicoes_finais
    retorno,            \* what processar_todas_posicoes returned
    motivo,             \* how obter_todas_posicoes returned
    eventos,            \* history of the run: requests, answers, sleeps, writes
    ultima_resposta,    \* history: the body of the last bulk answer, if any
    antes,              \* history: the files and the stored token when the run started
    \* gerar_mapa (ver_caminhoes.py) on its own
    g_pc,               \* "entrada" before the call, "fim" after it
    g_arquivo,          \* posicoes_veiculos.json as gerar_mapa finds it
    g_mapa              \* mapa_logistica.html

merge_vars == <<m_pc, m_antigas, m_novas, m_saida, m_salvo>>
resumo_vars == <<r_pc, r_posicoes, r_resumo>>
disco_vars == <<arquivo_posicoes, arquivo_resumo, env_token>>
run_vars == <<pc, execucao, token, contador_chamadas, posicoes_antigas, idx, formato,
              tentativa, posicoes_novas, posicoes_finais, retorno, motivo, eventos,
              ultima_resposta, antes>>
mapa_vars == <<g_pc, g_arquivo, g_mapa>>
vars == <<merge_vars, resumo_vars, disco_vars, run_vars, mapa_vars>>

(***************************************************************************)
(* Python values.                                                          *)
(***************************************************************************)
\* Python None where an identifier is expected (dict.get of an absent key).
NoneId == -1

\* bool(v) of an identifier value: None and 0 are falsy.
TruthyId(v) == v \notin {NoneId, 0}

\* A record's timestamp field, the content that changes between two fetches.
Hora(h) == "DataHoraPosicao" :> h

\* The lists of at most n records of R.
Listas(R, n) == UNION {[1..k -> R] : k \in 0..n}

\* The sentinel 'SEM_PLACA' as code points.
SEM_PLACA == <<83, 69, 77, 95, 80, 76, 65, 67, 65>>

\* a < b on Python strings: lexicographic by code point.
RECURSIVE StrLess(_, _)
StrLess(a, b) ==
    IF b = <<>> THEN FALSE
    ELSE IF a = <<>> THEN TRUE
    ELSE IF Head(a) < Head(b) THEN TRUE
    ELSE IF Head(a) > Head(b) THEN FALSE
    ELSE StrLess(Tail(a), Tail(b))

(***************************************************************************)
(* API3S.obter_id_veiculo: the first truthy value among six spellings,     *)
(* else the value of the last operand of the or-chain.                     *)
(***************************************************************************)
obter_id_veiculo(posicao) ==
    LET get(k) == IF k \in DOMAIN posicao THEN posicao[k] ELSE NoneId
        or(a, b) == IF TruthyId(a) THEN a ELSE b
    IN or(get("idVeiculo"), or(get("IdVeiculo"), or(get("id"),
       or(get("Id"), or(get("VeiculoId"), get("veiculoId"))))))

(***************************************************************************)
(* API3S.obter_placa: the first truthy value among three spellings, else   *)
(* the sentinel.                                                           *)
(***************************************************************************)
\* posicao.get('Placa', posicao.get('placa', ...)): presence, not truth.
obter_placa_so_presenca(posicao) ==
    LET tem(k) == k \in DOMAIN posicao
    IN IF tem("Placa") THEN posicao["Placa"]
       ELSE IF tem("placa") THEN posicao["placa"]
       ELSE IF tem("PLACA") THEN posicao["PLACA"]
       ELSE SEM_PLACA

obter_placa(posicao) ==
    LET tem(k) == k \in DOMAIN posicao /\ posicao[k] # <<>>
    IN IF tem("Placa") THEN posicao["Placa"]
       ELSE IF tem("placa") THEN posicao["placa"]
       ELSE IF tem("PLACA") THEN posicao["PLACA"]
       ELSE SEM_PLACA

(***************************************************************************)
(* A Python dict keeps insertion order: it is a sequence of entries with   *)
(* pairwise distinct keys.  Assigning to a key that is present replaces    *)
(* the value in place; assigning to an absent key appends.                 *)
(***************************************************************************)
TemChave(mapa, k) == \E i \in 1..Len(mapa) : mapa[i].chave = k

Valor(mapa, k) == mapa[CHOOSE i \in 1..Len(mapa) : mapa[i].chave = k].valor

\* an assignment that drops the key and adds it again at the end
AtribuirNoFim(mapa, k, v) ==
    Append(SelectSeq(mapa, LAMBDA e : e.chave # k), [chave |-> k, valor |-> v])

Atribuir(mapa, k, v) ==
    IF TemChave(mapa, k)
    THEN [i \in 1..Len(mapa) |->
            IF mapa[i].chave = k THEN [chave |-> k, valor |-> v] ELSE mapa[i]]
    ELSE Append(mapa, [chave |-> k, valor |-> v])

Valores(mapa) == [i \in 1..Len(mapa) |-> mapa[i].valor]

(***************************************************************************)
(* API3S.mesclar_posicoes.                                                 *)
(***************************************************************************)
\* First loop: index the existing records by identifier.
RECURSIVE IndexarAntigas(_, _)
IndexarAntigas(mapa_antigo, antigas) ==
    IF antigas = <<>> THEN mapa_antigo
    ELSE LET posicao == Head(antigas)
             id_veiculo == obter_id_veiculo(posicao)
         IN IndexarAntigas(IF TruthyId(id_veiculo)
                           THEN Atribuir(mapa_antigo, id_veiculo, posicao)
                           ELSE mapa_antigo,
                           Tail(antigas))

\* One iteration of the second loop that replaces on every match, without
\* comparing the indexed record with the incoming one.
PassoNovaSemComparar(e, posicao_nova) ==
    LET id_veiculo == obter_id_veiculo(posicao_nova)
    IN IF ~TruthyId(id_veiculo) THEN e
       ELSE IF TemChave(e.mapa_antigo, id_veiculo)
            THEN [e EXCEPT !.atualizados = @ + 1,
                           !.mapa_antigo = Atribuir(@, id_veiculo, posicao_nova)]
            ELSE [e EXCEPT !.novos = @ + 1,
                           !.mapa_antigo = Atribuir(@, id_veiculo, posicao_nova)]

\* One iteration of the second loop without the "if not id_veiculo: continue".
PassoNovaSemFiltro(e, posicao_nova) ==
    LET id_veiculo == obter_id_veiculo(posicao_nova)
    IN IF TemChave(e.mapa_antigo, id_veiculo)
       THEN IF Valor(e.mapa_antigo, id_veiculo) # posicao_nova
            THEN [e EXCEPT !.atualizados = @ + 1,
                           !.mapa_antigo = Atribuir(@, id_veiculo, posicao_nova)]
            ELSE [e EXCEPT !.mantidos = @ + 1]
       ELSE [e EXCEPT !.novos = @ + 1,
                      !.mapa_antigo = Atribuir(@, id_veiculo, posicao_nova)]

\* One iteration of the second loop.
PassoNova(e, posicao_nova) ==
    LET id_veiculo == obter_id_veiculo(posicao_nova)
    IN IF ~TruthyId(id_veiculo) THEN e
       ELSE IF TemChave(e.mapa_antigo, id_veiculo)
            THEN IF Valor(e.mapa_antigo, id_veiculo) # posicao_nova
                 THEN [e EXCEPT !.atualizados = @ + 1,
                                !.mapa_antigo = Atribuir(@, id_veiculo, posicao_nova)]
                 ELSE [e EXCEPT !.mantidos = @ + 1]
            ELSE [e EXCEPT !.novos = @ + 1,
                           !.mapa_antigo = Atribuir(@, id_veiculo, posicao_nova)]

RECURSIVE AplicarNovas(_, _)
AplicarNovas(e, novas) ==
    IF novas = <<>> THEN e
    ELSE AplicarNovas(PassoNova(e, Head(novas)), Tail(novas))

\* The merge that keeps the existing record on a key conflict.
mesclar_posicoes_antigo_vence(antigas, novas) ==
    LET e == AplicarNovas([mapa_antigo |-> IndexarAntigas(<<>>, novas),
                           novos |-> 0, atualizados |-> 0, mantidos |-> 0],
                          antigas)
    IN [resultado |-> Valores(e.mapa_antigo), novos |-> e.novos,
        atualizados |-> e.atualizados, mantidos |-> e.mantidos]

\* The merge that concatenates instead of indexing.
mesclar_posicoes_concatena(antigas, novas) ==
    [resultado |-> antigas \o novas,
     novos |-> Len(novas), atualizados |-> 0, mantidos |-> 0]

\* The list returned and the three statistics printed.
mesclar_posicoes(antigas, novas) ==
    LET e == AplicarNovas([mapa_antigo |-> IndexarAntigas(<<>>, antigas),
                           novos |-> 0, atualizados |-> 0, mantidos |-> 0],
                          novas)
    IN [resultado |-> Valores(e.mapa_antigo), novos |-> e.novos,
        atualizados |-> e.atualizados, mantidos |-> e.mantidos]

(***************************************************************************)
(* API3S.gerar_resumo.                                                     *)
(***************************************************************************)
\* The loop: one {Placa, idVeiculo} entry per record with a truthy id.
RECURSIVE ColetarResumo(_, _)
ColetarResumo(resumo, posicoes) ==
    IF posicoes = <<>> THEN resumo
    ELSE LET posicao == Head(posicoes)
             id_veiculo == obter_id_veiculo(posicao)
             placa == obter_placa(posicao)
         IN ColetarResumo(IF TruthyId(id_veiculo)
                          THEN Append(resumo, [Placa |-> placa, idVeiculo |-> id_veiculo])
                          ELSE resumo,
                          Tail(posicoes))

\* list.sort(key=...) is stable and ascending: every element goes after the
\* elements whose key is not greater than its own.
InserirOrdenado(s, x) ==
    LET depois == {i \in 1..Len(s) : StrLess(x.Placa, s[i].Placa)}
        k == IF depois = {} THEN Len(s) + 1
             ELSE CHOOSE i \in depois : \A j \in depois : i <= j
    IN SubSeq(s, 1, k - 1) \o <<x>> \o SubSeq(s, k, Len(s))

\* A sort that places an element before the elements of equal key.
RECURSIVE OrdenarInstavel(_, _)
OrdenarInstavel(ordenado, resto) ==
    IF resto = <<>> THEN ordenado
    ELSE LET x == Head(resto)
             depois == {i \in 1..Len(ordenado) : ~StrLess(ordenado[i].Placa, x.Placa)}
             k == IF depois = {} THEN Len(ordenado) + 1
                  ELSE CHOOSE i \in depois : \A j \in depois : i <= j
         IN OrdenarInstavel(SubSeq(ordenado, 1, k - 1) \o <<x>>
                              \o SubSeq(ordenado, k, Len(ordenado)),
                            Tail(resto))

RECURSIVE OrdenarPorPlaca(_, _)
OrdenarPorPlaca(ordenado, resto) ==
    IF resto = <<>> THEN ordenado
    ELSE OrdenarPorPlaca(InserirOrdenado(ordenado, Head(resto)), Tail(resto))

gerar_resumo(posicoes) == OrdenarPorPlaca(<<>>, ColetarResumo(<<>>, posicoes))

(***************************************************************************)
(* The merge applied to arbitrary lists: records without any identifier    *)
(* field, with a falsy identifier, with the same identifier and different  *)
(* content, and with the identifier under another spelling.                *)
(***************************************************************************)
RegistrosMerge ==
    {Hora(1), ("idVeiculo" :> 0) @@ Hora(1), ("id" :> 1) @@ Hora(1)}
    \cup {("idVeiculo" :> i) @@ Hora(h) : i \in 1..MaxId, h \in {1, 2}}

SaidaVazia == [resultado |-> <<>>, novos |-> 0, atualizados |-> 0, mantidos |-> 0]

(***************************************************************************)
(* The disk and the run of the script.                                     *)
(***************************************************************************)
\* Python None where a string is expected (os.getenv of an unset variable,
\* validar_login's failure).
None == "None"

\* bool(v) of a token: None and '' are falsy.
Truthy(v) == v \notin {None, ""}

\* A list or None (obter_todas_posicoes' result).
NoneLista == [nulo |-> TRUE, lista |-> <<>>]
Lista(l) == [nulo |-> FALSE, lista |-> l]

\* A JSON file: absent, unreadable, or holding a list.  json.dump followed
\* by json.load gives back the list of dicts that was dumped: the records
\* come from response.json(), so they hold JSON values only.
Ausente == [estado |-> "ausente", dados |-> <<>>]
Corrompido == [estado |-> "corrompido", dados |-> <<>>]
Arquivo(l) == [estado |-> "json", dados |-> l]

Evento(ev, n) == [ev |-> ev, n |-> n]

Conta(log, ev) == Cardinality({i \in 1..Len(log) : log[i].ev = ev})

\* The records and the bodies the bulk request may answer with.
RegistrosAPI ==
    { ("idVeiculo" :> 1) @@ ("Placa" :> <<84>>) @@ Hora(1),
      ("idVeiculo" :> 1) @@ ("Placa" :> <<84>>) @@ Hora(2),
      ("idVeiculo" :> 2) @@ Hora(1),
      ("Placa" :> <<65>>) @@ Hora(1) }

Erro(codigo) == <<"ErroProcessamento" :> codigo>>

\* A dataset file that two earlier runs of the script have left behind.
DadosAnteriores ==
    << ("idVeiculo" :> 1) @@ ("Placa" :> <<84>>) @@ Hora(1),
       ("idVeiculo" :> 2) @@ Hora(1) >>

CorposAPI == Listas(RegistrosAPI, MaxResposta) \cup {Erro("3S.1040"), Erro("3S.2000")}

ExecucaoParada ==
    /\ pc = "parado" /\ execucao = 0
    /\ arquivo_posicoes = Ausente /\ arquivo_resumo = Ausente /\ env_token = None
    /\ token = None /\ contador_chamadas = 0 /\ posicoes_antigas = <<>>
    /\ idx = 0 /\ formato = "json" /\ tentativa = 0 /\ posicoes_novas = NoneLista
    /\ posicoes_finais = <<>> /\ retorno = <<>> /\ motivo = "" /\ eventos = <<>>
    /\ ultima_resposta = NoneLista
    /\ antes = [posicoes |-> Ausente, resumo |-> Ausente, token |-> None]

\* The harnesses at rest, for the specifications that do not use them.
MergeParado ==
    /\ m_pc = "parado" /\ m_antigas = <<>> /\ m_novas = <<>>
    /\ m_saida = SaidaVazia /\ m_salvo = FALSE

\* mapa_logistica.html before gerar_mapa has saved it
SemMapa == [salvo |-> FALSE, marcadores |-> <<>>, ajustado |-> FALSE]

MapaParado == g_pc = "parado" /\ g_arquivo = Ausente /\ g_mapa = SemMapa

ResumoParado == r_pc = "parado" /\ r_posicoes = <<>> /\ r_resumo = <<>>

InitMerge ==
    /\ ResumoParado /\ ExecucaoParada /\ MapaParado
    /\ m_pc = "entrada"
    /\ \E i \in 0..MaxLista : \E j \in 0..(MaxLista - i) :
          /\ m_antigas \in [1..i -> RegistrosMerge]
          /\ m_novas \in [1..j -> RegistrosMerge]
    /\ m_saida = SaidaVazia
    /\ m_salvo = FALSE

\* mesclar_posicoes(posicoes_antigas, posicoes_novas)
Mesclar ==
    /\ m_pc = "entrada"
    /\ m_saida' = mesclar_posicoes(m_antigas, m_novas)
    /\ m_pc' = "mesclado"
    /\ UNCHANGED <<m_antigas, m_novas, m_salvo, resumo_vars, disco_vars, run_vars,
                   mapa_vars>>

\* mesclar_posicoes(D, D)
MesclarConsigo ==
    /\ m_pc = "entrada"
    /\ m_saida' = mesclar_posicoes(m_antigas, m_antigas)
    /\ m_pc' = "idem"
    /\ UNCHANGED <<m_antigas, m_novas, m_salvo, resumo_vars, disco_vars, run_vars,
                   mapa_vars>>

\* A later run: the list that was returned (and saved) is the existing one.
Reexecutar ==
    /\ m_pc = "mesclado"
    /\ m_antigas' = m_saida.resultado
    /\ m_novas' \in Listas(RegistrosMerge, MaxNovas)
    /\ m_saida' = SaidaVazia
    /\ m_salvo' = TRUE
    /\ m_pc' = "entrada"
    /\ UNCHANGED <<resumo_vars, disco_vars, run_vars,
                   mapa_vars>>

NextMerge == Mesclar \/ MesclarConsigo \/ Reexecutar

SpecMerge == InitMerge /\ [][NextMerge]_vars

(***************************************************************************)
(* The summary applied to arbitrary datasets: plates under the three       *)
(* spellings, empty (falsy) plates, equal plates on different vehicles,    *)
(* plates on either side of the sentinel, records without identifier.      *)
(***************************************************************************)
PartesPlaca ==
    { Hora(1),
      ("Placa" :> <<65>>) @@ Hora(1),
      ("Placa" :> <<65, 66>>) @@ Hora(1),
      ("Placa" :> <<>>) @@ ("placa" :> <<97>>) @@ Hora(1),
      ("placa" :> <<84>>) @@ ("PLACA" :> <<65>>) @@ Hora(1),
      ("Placa" :> <<>>) @@ ("PLACA" :> <<65>>) @@ Hora(1) }

RegistrosResumo ==
    PartesPlaca \cup {("idVeiculo" :> i) @@ p : i \in 1..MaxId, p \in PartesPlaca}

InitResumo ==
    /\ MergeParado /\ ExecucaoParada /\ MapaParado
    /\ r_pc = "entrada"
    /\ r_posicoes \in Listas(RegistrosResumo, MaxDados)
    /\ r_resumo = <<>>

\* gerar_resumo(posicoes)
Resumir ==
    /\ r_pc = "entrada"
    /\ r_resumo' = gerar_resumo(r_posicoes)
    /\ r_pc' = "resumido"
    /\ UNCHANGED <<r_posicoes, merge_vars, disco_vars, run_vars,
                   mapa_vars>>

NextResumo == Resumir

SpecResumo == InitResumo /\ [][NextResumo]_vars

(***************************************************************************)
(* The script: API3S() followed by processar_todas_posicoes(), run after   *)
(* run against the same disk.  One action per request sent or file         *)
(* written; the answers of the API are the environment's choice.           *)
(***************************************************************************)
\* API3S.controlar_rate_limit: the counter after the call and the seconds slept.
controlar_rate_limit_sem_reset(contador) ==
    LET c == contador + 1
    IN IF c > max_chamadas_por_minuto
       THEN [contador_chamadas |-> 0, dormiu |-> tempo_espera]
       ELSE [contador_chamadas |-> c, dormiu |-> 0]

controlar_rate_limit(contador) ==
    LET c == contador + 1
    IN IF c >= max_chamadas_por_minuto
       THEN [contador_chamadas |-> 0, dormiu |-> tempo_espera]
       ELSE [contador_chamadas |-> c, dormiu |-> 0]

\* API3S.carregar_posicoes_existentes
\* a load that never reads the file
carregar_posicoes_existentes_vazio(arquivo) == <<>>

carregar_posicoes_existentes(arquivo) ==
    IF arquivo.estado = "json" THEN arquivo.dados ELSE <<>>

\* obter_todas_posicoes: "if not token: return None"
SemTokenNunca(t) == FALSE

SemToken(t) == ~Truthy(t)

\* obter_todas_posicoes: tentativa after a rate-limit answer (3S.1040)
TentativaAposRateLimitIgual(t) == t

TentativaAposRateLimit(t) == t + 1

\* obter_todas_posicoes: the body is a non-empty list whose first element
\* carries ErroProcessamento
\* obter_todas_posicoes: the 5 second sleep only when an attempt remains
EsperaAposFalhaSempre(t) == TRUE

EsperaAposFalha(t) == t < max_tentativas

\* verificar_token_valido: no token, no request; else only HTTP 200 is valid
verificar_token_valido_sem_status(tok, status) == Truthy(tok) /\ status # "excecao"

verificar_token_valido(tok, status) == Truthy(tok) /\ status = "200"

\* the status code of an answer to the probe, 0 when the request raised
CodigoHTTP(status) == IF status = "200" THEN 200 ELSE IF status = "401" THEN 401 ELSE 0

\* validar_login: status 200 and a truthy 'token' field in the body
RespostaComTokenNunca(r) == FALSE

RespostaComToken(r) == r = "token"

TemErro(corpo) == Len(corpo) > 0 /\ "ErroProcessamento" \in DOMAIN corpo[1]

\* every embedded error taken for the rate-limit error
ExcessoDeChamadasSempre(corpo) == TRUE

\* '3S.1040' in erro
ExcessoDeChamadas(corpo) == corpo[1]["ErroProcessamento"] = "3S.1040"

\* processar_todas_posicoes: "if not posicoes_novas"
SemNovasNunca(novas) == FALSE

SemNovas(novas) == novas.nulo \/ novas.lista = <<>>

Init ==
    /\ MergeParado /\ ResumoParado /\ MapaParado
    /\ pc = "parado" /\ execucao = 0
    /\ arquivo_posicoes \in {Ausente, Corrompido, Arquivo(DadosAnteriores)}
    /\ arquivo_resumo = IF arquivo_posicoes.estado = "json"
                        THEN Arquivo(gerar_resumo(arquivo_posicoes.dados)) ELSE Ausente
    /\ env_token \in {None, "velho"}
    /\ token = None /\ contador_chamadas = 0 /\ posicoes_antigas = <<>>
    /\ idx = 0 /\ formato = "json" /\ tentativa = 0 /\ posicoes_novas = NoneLista
    /\ posicoes_finais = <<>> /\ retorno = <<>> /\ motivo = "" /\ eventos = <<>>
    /\ ultima_resposta = NoneLista
    /\ antes = [posicoes |-> arquivo_posicoes, resumo |-> arquivo_resumo,
               token |-> env_token]

\* python lista_pos_vei_3S.py: API3S.__init__
Construir ==
    /\ pc \in {"parado", "fim"}
    /\ execucao < MaxExecucoes
    /\ execucao' = execucao + 1
    /\ token' = env_token
    /\ contador_chamadas' = 0
    /\ posicoes_antigas' = <<>> /\ idx' = 0 /\ formato' = "json" /\ tentativa' = 0
    /\ posicoes_novas' = NoneLista /\ posicoes_finais' = <<>> /\ retorno' = <<>>
    /\ motivo' = "" /\ eventos' = <<>> /\ ultima_resposta' = NoneLista
    /\ antes' = [posicoes |-> arquivo_posicoes, resumo |-> arquivo_resumo,
                token |-> env_token]
    /\ pc' = "carregar"
    /\ UNCHANGED <<disco_vars, merge_vars, resumo_vars,
                   mapa_vars>>

\* processar_todas_posicoes, step 1
Carregar ==
    /\ pc = "carregar"
    /\ posicoes_antigas' = carregar_posicoes_existentes(arquivo_posicoes)
    /\ eventos' = Append(eventos, Evento("carregar", 0))
    /\ pc' = "obter_token"
    /\ UNCHANGED <<execucao, token, contador_chamadas, idx, formato, tentativa,
                   posicoes_novas, posicoes_finais, retorno, motivo, ultima_resposta, antes,
                   disco_vars, merge_vars, resumo_vars,
                   mapa_vars>>

\* obter_token up to the call of validar_login: verificar_token_valido sends
\* the probe only for a truthy token; a token that is not confirmed is
\* cleared in .env and in self.token.
VerificarToken ==
    /\ pc = "obter_token"
    /\ \E resposta \in {"200", "401", "excecao"} :
         LET sonda == Truthy(token)
             valido == verificar_token_valido(token, resposta)
             log == IF sonda THEN Append(eventos, Evento("sonda", CodigoHTTP(resposta)))
                    ELSE eventos
         IN IF valido
            THEN /\ eventos' = log
                 /\ pc' = IF SemToken(token) THEN "decidir" ELSE "buscar"
                 /\ motivo' = IF SemToken(token) THEN "sem_token" ELSE motivo
                 /\ UNCHANGED <<token, env_token, idx, formato>>
            ELSE /\ eventos' = Append(log, Evento("limpar_token", 0))
                 /\ env_token' = ""
                 /\ token' = ""
                 /\ idx' = 1
                 /\ formato' = "json"
                 /\ pc' = "login"
                 /\ UNCHANGED motivo
    /\ UNCHANGED <<execucao, contador_chamadas, posicoes_antigas, tentativa,
                   posicoes_novas, posicoes_finais, retorno, ultima_resposta, antes,
                   arquivo_posicoes, arquivo_resumo, merge_vars, resumo_vars,
                   mapa_vars>>

\* validar_login: one request (JSON, then form-urlencoded, of payload idx).
\* A 200 answer with a token ends the login; an exception goes to the next
\* payload; the end of the list returns None.
TentarLogin ==
    /\ pc = "login"
    /\ \E resposta \in {"token", "200_sem_token", "erro_http", "excecao"} :
         LET enviado == Append(eventos, Evento(IF formato = "json" THEN "login_json"
                                                                ELSE "login_form", idx))
             pedido == IF resposta = "token"
                       THEN Append(enviado, Evento("resposta_token", idx)) ELSE enviado
             proximo == IF formato = "json" /\ resposta # "excecao" THEN idx ELSE idx + 1
         IN IF RespostaComToken(resposta)
            THEN /\ env_token' = "novo"
                 /\ token' = "novo"
                 /\ eventos' = Append(pedido, Evento("gravar_token", idx))
                 /\ pc' = IF SemToken("novo") THEN "decidir" ELSE "buscar"
                 /\ motivo' = IF SemToken("novo") THEN "sem_token" ELSE motivo
                 /\ UNCHANGED <<idx, formato>>
            ELSE /\ eventos' = pedido
                 /\ idx' = proximo
                 /\ formato' = IF proximo = idx THEN "form" ELSE "json"
                 /\ pc' = IF proximo <= 3 THEN "login"
                          ELSE IF SemToken(None) THEN "decidir" ELSE "buscar"
                 /\ motivo' = IF proximo > 3 /\ SemToken(None) THEN "sem_token" ELSE motivo
                 /\ UNCHANGED <<env_token, token>>
    /\ UNCHANGED <<execucao, contador_chamadas, posicoes_antigas, tentativa,
                   posicoes_novas, posicoes_finais, retorno, ultima_resposta, antes,
                   arquivo_posicoes, arquivo_resumo, merge_vars, resumo_vars,
                   mapa_vars>>

\* obter_todas_posicoes: one iteration of the while loop.
BuscarPosicoes ==
    /\ pc = "buscar"
    /\ tentativa < max_tentativas
    /\ \E falha \in BOOLEAN : \E corpo \in CorposAPI :
         LET pedido == Append(eventos, Evento("pedido_posicoes", tentativa))
             rl == controlar_rate_limit(contador_chamadas)
             contado == IF rl.dormiu > 0
                        THEN Append(pedido, Evento("pausa", rl.dormiu)) ELSE pedido
         IN IF falha
            THEN \* requests.exceptions.RequestException
                 /\ tentativa' = tentativa + 1
                 /\ eventos' = IF EsperaAposFalha(tentativa')
                               THEN pedido \o <<Evento("falha_transporte", tentativa),
                                               Evento("espera", 5)>>
                               ELSE Append(pedido, Evento("falha_transporte", tentativa))
                 /\ pc' = IF tentativa' < max_tentativas THEN "buscar" ELSE "decidir"
                 /\ motivo' = IF tentativa' < max_tentativas THEN motivo ELSE "esgotado"
                 /\ ultima_resposta' = NoneLista
                 /\ UNCHANGED <<contador_chamadas, posicoes_novas>>
            ELSE IF TemErro(corpo)
            THEN IF ExcessoDeChamadas(corpo)
                 THEN /\ contador_chamadas' = 0
                      /\ ultima_resposta' = Lista(corpo)
                      /\ tentativa' = TentativaAposRateLimit(tentativa)
                      /\ eventos' = contado \o <<Evento("excesso_chamadas", tentativa),
                                                 Evento("pausa", tempo_espera)>>
                      /\ pc' = IF tentativa' < max_tentativas THEN "buscar" ELSE "decidir"
                      /\ motivo' = IF tentativa' < max_tentativas THEN motivo ELSE "esgotado"
                      /\ UNCHANGED posicoes_novas
                 ELSE /\ contador_chamadas' = rl.contador_chamadas
                      /\ ultima_resposta' = Lista(corpo)
                      /\ eventos' = Append(contado, Evento("erro_api", tentativa))
                      /\ pc' = "decidir"
                      /\ motivo' = "erro_api"
                      /\ UNCHANGED <<tentativa, posicoes_novas>>
            ELSE /\ contador_chamadas' = rl.contador_chamadas
                 /\ posicoes_novas' = Lista(corpo)
                 /\ ultima_resposta' = Lista(corpo)
                 /\ eventos' = Append(contado, Evento("posicoes", Len(corpo)))
                 /\ pc' = "decidir"
                 /\ motivo' = "lista"
                 /\ UNCHANGED tentativa
    /\ UNCHANGED <<execucao, token, posicoes_antigas, idx, formato, posicoes_finais,
                   retorno, antes, disco_vars, merge_vars, resumo_vars,
                   mapa_vars>>

\* processar_todas_posicoes: no new positions, the run ends without writing.
ManterExistente ==
    /\ pc = "decidir"
    /\ SemNovas(posicoes_novas)
    /\ retorno' = posicoes_antigas
    /\ pc' = "fim"
    /\ UNCHANGED <<execucao, token, contador_chamadas, posicoes_antigas, idx, formato,
                   tentativa, posicoes_novas, posicoes_finais, motivo, eventos, ultima_resposta, antes,
                   disco_vars, merge_vars, resumo_vars,
                   mapa_vars>>

\* processar_todas_posicoes, step 3
MesclarNovas ==
    /\ pc = "decidir"
    /\ ~SemNovas(posicoes_novas)
    /\ posicoes_finais' = mesclar_posicoes(posicoes_antigas, posicoes_novas.lista).resultado
    /\ eventos' = Append(eventos, Evento("mesclar", 0))
    /\ pc' = "salvar_posicoes"
    /\ UNCHANGED <<execucao, token, contador_chamadas, posicoes_antigas, idx, formato,
                   tentativa, posicoes_novas, retorno, motivo, ultima_resposta, antes,
                   disco_vars, merge_vars, resumo_vars,
                   mapa_vars>>

\* processar_todas_posicoes, step 4
SalvarPosicoes ==
    /\ pc = "salvar_posicoes"
    /\ arquivo_posicoes' = Arquivo(posicoes_finais)
    /\ eventos' = Append(eventos, Evento("escrever_posicoes", 0))
    /\ pc' = "salvar_resumo"
    /\ UNCHANGED <<execucao, token, contador_chamadas, posicoes_antigas, idx, formato,
                   tentativa, posicoes_novas, posicoes_finais, retorno, motivo, ultima_resposta, antes,
                   arquivo_resumo, env_token, merge_vars, resumo_vars,
                   mapa_vars>>

\* processar_todas_posicoes, step 5 and the return
SalvarResumo ==
    /\ pc = "salvar_resumo"
    /\ arquivo_resumo' = Arquivo(gerar_resumo(posicoes_finais))
    /\ eventos' = Append(eventos, Evento("escrever_resumo", 0))
    /\ retorno' = posicoes_finais
    /\ pc' = "fim"
    /\ UNCHANGED <<execucao, token, contador_chamadas, posicoes_antigas, idx, formato,
                   tentativa, posicoes_novas, posicoes_finais, motivo, ultima_resposta, antes,
                   arquivo_posicoes, env_token, merge_vars, resumo_vars,
                   mapa_vars>>

Next ==
    \/ Construir \/ Carregar \/ VerificarToken \/ TentarLogin \/ BuscarPosicoes
    \/ ManterExistente \/ MesclarNovas \/ SalvarPosicoes \/ SalvarResumo

Spec == Init /\ [][Next]_vars

(***************************************************************************)
(* The rate limiter of one API3S object under any sequence of calls: a     *)
(* call of controlar_rate_limit alone, or the call followed by the         *)
(* recovery from the API's own rate-limit answer.                          *)
(***************************************************************************)
InitLimitador ==
    /\ MergeParado /\ ResumoParado /\ MapaParado
    /\ pc = "limitador" /\ execucao = 0
    /\ arquivo_posicoes = Ausente /\ arquivo_resumo = Ausente /\ env_token = None
    /\ token = None /\ contador_chamadas = 0 /\ posicoes_antigas = <<>>
    /\ idx = 0 /\ formato = "json" /\ tentativa = 0 /\ posicoes_novas = NoneLista
    /\ posicoes_finais = <<>> /\ retorno = <<>> /\ motivo = "" /\ eventos = <<>>
    /\ ultima_resposta = NoneLista
    /\ antes = [posicoes |-> Ausente, resumo |-> Ausente, token |-> None]

\* self.controlar_rate_limit()
ChamarControlarRateLimit ==
    /\ pc = "limitador"
    /\ Conta(eventos, "chamada") < MaxChamadas
    /\ LET rl == controlar_rate_limit(contador_chamadas)
           log == Append(eventos, Evento("chamada", contador_chamadas))
       IN /\ contador_chamadas' = rl.contador_chamadas
          /\ eventos' = IF rl.dormiu > 0
                        THEN Append(log, Evento("pausa", rl.dormiu)) ELSE log
    /\ UNCHANGED <<pc, execucao, token, posicoes_antigas, idx, formato, tentativa,
                   posicoes_novas, posicoes_finais, retorno, motivo, ultima_resposta, antes,
                   disco_vars, merge_vars, resumo_vars,
                   mapa_vars>>

\* self.controlar_rate_limit() on an answer that carries 3S.1040:
\* time.sleep(self.tempo_espera); self.contador_chamadas = 0
ChamarERecuperar ==
    /\ pc = "limitador"
    /\ Conta(eventos, "chamada") < MaxChamadas
    /\ LET rl == controlar_rate_limit(contador_chamadas)
           log == Append(eventos, Evento("chamada", contador_chamadas))
           contado == IF rl.dormiu > 0
                      THEN Append(log, Evento("pausa", rl.dormiu)) ELSE log
       IN /\ contador_chamadas' = 0
          /\ eventos' = contado \o <<Evento("excesso_chamadas", 0),
                                     Evento("pausa", tempo_espera)>>
    /\ UNCHANGED <<pc, execucao, token, posicoes_antigas, idx, formato, tentativa,
                   posicoes_novas, posicoes_finais, retorno, motivo, ultima_resposta, antes,
                   disco_vars, merge_vars, resumo_vars,
                   mapa_vars>>

NextLimitador == ChamarControlarRateLimit \/ ChamarERecuperar

SpecLimitador == InitLimitador /\ [][NextLimitador]_vars

(***************************************************************************)
(* gerar_mapa (ver_caminhoes.py): the markers drawn from the dataset file. *)
(***************************************************************************)
\* A JSON value of a coordinate field: a number, held as its str(), or a string.
Numero(texto) == [num |-> TRUE, texto |-> texto]
Texto(texto) == [num |-> FALSE, texto |-> texto]

\* "if lat_raw and lon_raw": the field is there, and is neither the number 0
\* nor the empty string
TemCoordenada(v, campo) ==
    /\ campo \in DOMAIN v
    /\ IF v[campo].num THEN \E i \in 1..Len(v[campo].texto) : v[campo].texto[i] \in 49..57
                       ELSE v[campo].texto # <<>>

\* str(x).replace(',', '.')
TrocarVirgula(t) == [i \in 1..Len(t) |-> IF t[i] = 44 THEN 46 ELSE t[i]]

EhDigito(c) == c \in 48..57

RECURSIVE ValorDigitos(_)
ValorDigitos(d) ==
    IF d = <<>> THEN 0
    ELSE 10 * ValorDigitos(SubSeq(d, 1, Len(d) - 1)) + (d[Len(d)] - 48)

\* A decimal number m / 10^casas in lowest form: 23.50 and 23.5 are one float.
RECURSIVE SemZerosFinais(_, _)
SemZerosFinais(m, casas) ==
    IF casas > 0 /\ m % 10 = 0 THEN SemZerosFinais(m \div 10, casas - 1)
    ELSE [m |-> m, casas |-> casas]

ValueError == [erro |-> TRUE, m |-> 0, casas |-> 0]

\* float(s) of a decimal literal: an optional sign, digits, at most one point;
\* any other text raises ValueError.
float(t) ==
    LET sinal == Len(t) > 0 /\ t[1] \in {43, 45}
        corpo == IF sinal THEN Tail(t) ELSE t
        pontos == {i \in 1..Len(corpo) : corpo[i] = 46}
        digitos == SelectSeq(corpo, EhDigito)
        casas == IF pontos = {} THEN 0 ELSE Len(corpo) - (CHOOSE i \in pontos : TRUE)
        valor == SemZerosFinais(ValorDigitos(digitos), casas)
    IN IF Cardinality(pontos) <= 1 /\ digitos # <<>>
          /\ Len(digitos) + Cardinality(pontos) = Len(corpo)
       THEN [erro |-> FALSE, m |-> IF sinal /\ t[1] = 45 THEN 0 - valor.m ELSE valor.m,
             casas |-> valor.casas]
       ELSE ValueError

\* v.get(campo, padrao)
Get(v, campo, padrao) == IF campo \in DOMAIN v THEN v[campo] ELSE padrao

\* 'S/P', the plate of a record without one
SemPlacaMapa == <<83, 47, 80>>

\* cor_pino = "green" if velocidade > 0 else "red"
CorDoPinoNaoNegativa(velocidade) == IF velocidade >= 0 THEN "green" ELSE "red"

CorDoPino(velocidade) == IF velocidade > 0 THEN "green" ELSE "red"

\* status = "Em Movimento" if velocidade > 0 else "Parado"
StatusDoPino(velocidade) == IF velocidade > 0 THEN "Em Movimento" ELSE "Parado"

Coordenada(v, campo) == float(TrocarVirgula(v[campo].texto))

\* The record gets a marker: both coordinates are truthy and both parse.
Plotado(v) ==
    /\ TemCoordenada(v, "Latitude") /\ TemCoordenada(v, "Longitude")
    /\ ~Coordenada(v, "Latitude").erro
    /\ ~Coordenada(v, "Longitude").erro

\* folium.Marker(location=[lat, lon], popup, tooltip, icon)
Marcador(v) ==
    LET velocidade == Get(v, "Velocidade", 0)
    IN [lat |-> Coordenada(v, "Latitude"), lon |-> Coordenada(v, "Longitude"),
        placa |-> Get(v, "Placa", SemPlacaMapa),
        velocidade |-> velocidade,
        cor |-> CorDoPino(velocidade), status |-> StatusDoPino(velocidade)]

\* the for loop over veiculos
RECURSIVE Marcadores(_)
Marcadores(veiculos) ==
    IF veiculos = <<>> THEN <<>>
    ELSE (IF Plotado(Head(veiculos)) THEN <<Marcador(Head(veiculos))>> ELSE <<>>)
         \o Marcadores(Tail(veiculos))

\* gerar_mapa: nothing is saved when the file is missing or unreadable;
\* fit_bounds only when some record was plotted.
gerar_mapa(arquivo) ==
    IF arquivo.estado # "json" THEN SemMapa
    ELSE [salvo |-> TRUE, marcadores |-> Marcadores(arquivo.dados),
          ajustado |-> Marcadores(arquivo.dados) # <<>>]

\* The records of the dataset file as far as the map reads them.
Latitudes == {Numero(<<48>>), Texto(<<45, 50, 51, 44, 53>>), Texto(<<120>>)}
Longitudes == {Numero(<<45, 52, 54, 46, 54>>), Texto(<<120>>)}
Velocidades == {0 - 3, 0, 40}

RegistrosMapa ==
    { lat @@ lon @@ vel @@ Hora(1) :
        lat \in {Hora(1)} \cup {("Latitude" :> x) : x \in Latitudes},
        lon \in {Hora(1)} \cup {("Longitude" :> x) : x \in Longitudes},
        vel \in {Hora(1)} \cup {("Velocidade" :> x) : x \in Velocidades} }

InitMapa ==
    /\ MergeParado /\ ResumoParado /\ ExecucaoParada
    /\ g_pc = "entrada"
    /\ g_arquivo \in {Ausente, Corrompido}
                     \cup {Arquivo(l) : l \in Listas(RegistrosMapa, MaxVeiculos)}
    /\ g_mapa = SemMapa

GerarMapa ==
    /\ g_pc = "entrada"
    /\ g_mapa' = gerar_mapa(g_arquivo)
    /\ g_pc' = "fim"
    /\ UNCHANGED <<g_arquivo, merge_vars, resumo_vars, disco_vars, run_vars>>

NextMapa == GerarMapa

SpecMapa == InitMapa /\ [][NextMapa]_vars

(***************************************************************************)
(* Properties of the merge.                                                *)
(***************************************************************************)
\* The positions of a list whose record resolves to identifier k.
ComChave(posicoes, k) == {i \in 1..Len(posicoes) : obter_id_veiculo(posicoes[i]) = k}

Ultimo(S) == CHOOSE i \in S : \A j \in S : j <= i

Registros(posicoes) == {posicoes[i] : i \in 1..Len(posicoes)}

\* Every record has a truthy identifier and no two positions share one.
ChavesUnicas(posicoes) ==
    /\ \A i \in 1..Len(posicoes) : TruthyId(obter_id_veiculo(posicoes[i]))
    /\ \A i, j \in 1..Len(posicoes) :
          obter_id_veiculo(posicoes[i]) = obter_id_veiculo(posicoes[j]) => i = j

SemChave(posicoes) ==
    \A i \in 1..Len(posicoes) : ~TruthyId(obter_id_veiculo(posicoes[i]))

\* C4, as claimed: for ANY dataset D, mesclar_posicoes(D, D) holds the same
\* set of records as D and counts no new and no updated record.
C4_QualquerDataset ==
    m_pc = "idem" =>
        /\ Registros(m_saida.resultado) = Registros(m_antigas)
        /\ m_saida.novos = 0
        /\ m_saida.atualizados = 0

\* C4, amended: for a dataset D in which every record has a resolvable
\* identifier and no two records share one, mesclar_posicoes(D, D) is D
\* (same records, same order), with 0 new, 0 updated and Len(D) kept.
C4_Idempotencia ==
    (m_pc = "idem" /\ ChavesUnicas(m_antigas)) =>
        /\ m_saida.resultado = m_antigas
        /\ Registros(m_saida.resultado) = Registros(m_antigas)
        /\ m_saida.novos = 0
        /\ m_saida.atualizados = 0
        /\ m_saida.mantidos = Len(m_antigas)

C4_Testemunha ==
    /\ m_pc = "idem"
    /\ ChavesUnicas(m_antigas)
    /\ Len(m_antigas) = 2
    /\ m_saida.mantidos = 2

\* C5: after a merge, every identifier that resolves on an incoming record
\* has exactly one record in the output, the last incoming record with that
\* identifier; every identifier that resolves only on existing records has
\* exactly one record in the output, the existing one (the last indexed).
C5_UpsertDireita ==
    m_pc = "mesclado" =>
        \A k \in 1..MaxId :
            LET nk == ComChave(m_novas, k)
                ak == ComChave(m_antigas, k)
                rk == ComChave(m_saida.resultado, k)
            IN /\ nk # {} =>
                    /\ Cardinality(rk) = 1
                    /\ \A i \in rk : m_saida.resultado[i] = m_novas[Ultimo(nk)]
               /\ (nk = {} /\ ak # {}) =>
                    /\ Cardinality(rk) = 1
                    /\ \A i \in rk : m_saida.resultado[i] = m_antigas[Ultimo(ak)]
               /\ (nk = {} /\ ak = {}) => rk = {}

C5_Testemunha ==
    /\ m_pc = "mesclado"
    /\ \E k \in 1..MaxId :
          /\ ComChave(m_novas, k) # {}
          /\ ComChave(m_antigas, k) # {}
          /\ m_antigas[Ultimo(ComChave(m_antigas, k))]
                # m_novas[Ultimo(ComChave(m_novas, k))]
          /\ m_antigas[Ultimo(ComChave(m_antigas, k))] \notin Registros(m_saida.resultado)
    /\ \E k \in 1..MaxId : ComChave(m_novas, k) = {} /\ ComChave(m_antigas, k) # {}

\* C6, as claimed: for ANY dataset D and any incoming list without a
\* resolvable identifier, mesclar_posicoes(D, incoming) = D.
C6_QualquerDataset ==
    (m_pc = "mesclado" /\ SemChave(m_novas)) => m_saida.resultado = m_antigas

\* C6, amended: an incoming list without a resolvable identifier adds
\* nothing and changes nothing: no incoming record is counted, the output
\* is what the merge of D with the empty list gives, and it is D itself
\* when every record of D has a resolvable identifier and no two share one.
C6_SemChaveNadaMuda ==
    (m_pc = "mesclado" /\ SemChave(m_novas)) =>
        /\ m_saida.novos = 0 /\ m_saida.atualizados = 0 /\ m_saida.mantidos = 0
        /\ \A i \in 1..Len(m_saida.resultado) :
              /\ TruthyId(obter_id_veiculo(m_saida.resultado[i]))
              /\ m_saida.resultado[i] \in Registros(m_antigas)
        /\ \A k \in 1..MaxId :
              LET ak == ComChave(m_antigas, k)
                  rk == ComChave(m_saida.resultado, k)
              IN IF ak = {} THEN rk = {}
                 ELSE /\ Cardinality(rk) = 1
                      /\ \A i \in rk : m_saida.resultado[i] = m_antigas[Ultimo(ak)]
        /\ ChavesUnicas(m_antigas) => m_saida.resultado = m_antigas

C6_Testemunha ==
    /\ m_pc = "mesclado"
    /\ Len(m_novas) >= 1
    /\ SemChave(m_novas)
    /\ \E i \in 1..Len(m_novas) : "idVeiculo" \in DOMAIN m_novas[i]
    /\ \E i \in 1..Len(m_novas) : "idVeiculo" \notin DOMAIN m_novas[i]
    /\ Len(m_antigas) >= 1
    /\ ChavesUnicas(m_antigas)
    /\ m_saida.resultado = m_antigas

\* C7: the list mesclar_posicoes returns never holds two records that
\* resolve to the same identifier, nor a record without one, whatever the
\* two lists hold; and so the list a later run starts from (the one saved
\* by the run before) holds at most one record per identifier.
C7_UmRegistroPorVeiculo ==
    /\ m_pc \in {"mesclado", "idem"} => ChavesUnicas(m_saida.resultado)
    /\ m_salvo => ChavesUnicas(m_antigas)

C7_Testemunha ==
    /\ m_pc = "mesclado"
    /\ ~m_salvo
    /\ \E i, j \in 1..Len(m_antigas) :
          i # j /\ TruthyId(obter_id_veiculo(m_antigas[i]))
                /\ obter_id_veiculo(m_antigas[i]) = obter_id_veiculo(m_antigas[j])
    /\ \E i \in 1..Len(m_novas) : ~TruthyId(obter_id_veiculo(m_novas[i]))
    /\ Len(m_saida.resultado) = 1

(***************************************************************************)
(* Properties of the summary.                                              *)
(***************************************************************************)
ComPlaca(resumo, p) == LET igual(e) == e.Placa = p IN SelectSeq(resumo, igual)

\* C8: the plates of the summary are in non-decreasing lexicographic order,
\* and the entries of one plate are in the order of their dataset records.
C8_ResumoOrdenadoEstavel ==
    r_pc = "resumido" =>
        /\ \A i, j \in 1..Len(r_resumo) :
              i < j => ~StrLess(r_resumo[j].Placa, r_resumo[i].Placa)
        /\ \A i \in 1..Len(r_resumo) :
              ComPlaca(r_resumo, r_resumo[i].Placa)
                = ComPlaca(ColetarResumo(<<>>, r_posicoes), r_resumo[i].Placa)

C8_Testemunha ==
    /\ r_pc = "resumido"
    /\ Len(r_resumo) = 3
    /\ r_resumo[1].Placa = r_resumo[2].Placa
    /\ r_resumo[1].idVeiculo > r_resumo[2].idVeiculo
    /\ r_resumo[3].Placa = SEM_PLACA
    /\ r_resumo # ColetarResumo(<<>>, r_posicoes)

\* The plate the summary is to show: the first of Placa, placa, PLACA that
\* is present with a non-empty value, else the sentinel.
PlacaEsperada(posicao) ==
    LET campos == <<"Placa", "placa", "PLACA">>
        bons == {n \in 1..3 : campos[n] \in DOMAIN posicao /\ posicao[campos[n]] # <<>>}
    IN IF bons = {} THEN SEM_PLACA
       ELSE posicao[campos[CHOOSE n \in bons : \A o \in bons : n <= o]]

GrafiasId == {"idVeiculo", "IdVeiculo", "id", "Id", "VeiculoId", "veiculoId"}

\* C9: the summary holds exactly one {Placa, idVeiculo} entry per dataset
\* record with a resolvable identifier, carrying that identifier and the
\* first truthy plate among Placa, placa, PLACA or else SEM_PLACA, and no
\* entry for a record that has none of the identifier spellings.
C9_ResumoUmPorRegistro ==
    r_pc = "resumido" =>
        LET chaveados == {i \in 1..Len(r_posicoes) :
                            TruthyId(obter_id_veiculo(r_posicoes[i]))}
            entrada(i) == [Placa |-> PlacaEsperada(r_posicoes[i]),
                           idVeiculo |-> obter_id_veiculo(r_posicoes[i])]
        IN /\ Len(r_resumo) = Cardinality(chaveados)
           /\ \A i \in chaveados :
                 Cardinality({j \in 1..Len(r_resumo) : r_resumo[j] = entrada(i)})
                   = Cardinality({k \in chaveados : entrada(k) = entrada(i)})
           /\ \A i \in 1..Len(r_posicoes) :
                 DOMAIN r_posicoes[i] \cap GrafiasId = {} => i \notin chaveados
           /\ \A j \in 1..Len(r_resumo) :
                 /\ DOMAIN r_resumo[j] = {"Placa", "idVeiculo"}
                 /\ r_resumo[j].Placa # <<>>

C9_Testemunha ==
    /\ r_pc = "resumido"
    /\ Len(r_posicoes) = 3
    /\ Len(r_resumo) = 2
    /\ \E i \in 1..3 : DOMAIN r_posicoes[i] \cap GrafiasId = {}
    /\ \E j \in 1..2 : r_resumo[j].Placa = SEM_PLACA
    /\ \E j \in 1..2 : r_resumo[j].Placa = <<97>>

(***************************************************************************)
(* Properties of the run.                                                  *)
(***************************************************************************)
EscritasDeDados == Conta(eventos, "escrever_posicoes") + Conta(eventos, "escrever_resumo")

DadosComoAntes == arquivo_posicoes = antes.posicoes /\ arquivo_resumo = antes.resumo

\* C1, as claimed: an answer carrying 3S.1040 does not consume one of the 3
\* attempts, so the attempts used are the transport failures alone and the
\* fetch gives up only after 3 transport failures.
C1_RateLimitNaoConsome ==
    /\ tentativa = Conta(eventos, "falha_transporte")
    /\ motivo = "esgotado" => Conta(eventos, "falha_transporte") = max_tentativas

\* C1, amended: an answer carrying 3S.1040 causes a pause of tempo_espera
\* seconds, a reset of the call counter to zero and a retry that DOES
\* consume one of the 3 attempts: the attempts used are the transport
\* failures plus the rate-limit answers, at most 3 requests are sent, and
\* the fetch returns None as soon as failures and rate-limit answers
\* together reach 3.
C1_RateLimitConsome ==
    LET n == Len(eventos)
        transporte == Conta(eventos, "falha_transporte")
        excesso == Conta(eventos, "excesso_chamadas")
    IN /\ tentativa = transporte + excesso
       /\ tentativa <= max_tentativas
       /\ Conta(eventos, "pedido_posicoes") <= max_tentativas
       /\ \A i \in 1..n : eventos[i].ev = "excesso_chamadas" =>
             i < n /\ eventos[i + 1] = Evento("pausa", tempo_espera)
       /\ (n >= 2 /\ eventos[n - 1].ev = "excesso_chamadas") =>
             /\ contador_chamadas = 0
             /\ IF tentativa < max_tentativas
                THEN pc = "buscar" /\ motivo = ""
                ELSE pc \in {"decidir", "fim"} /\ motivo = "esgotado"
       /\ motivo = "esgotado" =>
             /\ transporte + excesso = max_tentativas
             /\ posicoes_novas = NoneLista

C1_Testemunha ==
    /\ pc = "fim"
    /\ motivo = "esgotado"
    /\ Conta(eventos, "excesso_chamadas") = 1
    /\ Conta(eventos, "falha_transporte") = 2
    /\ \E i \in 1..Len(eventos) :
          /\ eventos[i] = Evento("excesso_chamadas", 0)
          /\ \E j \in (i + 1)..Len(eventos) : eventos[j].ev = "falha_transporte"

\* C2: when the fetch yields None, after 3 used attempts or on an embedded
\* API error, nothing is written: both files are as when the run started,
\* and the run returns the dataset loaded in step 1.
C2_SemNovasNadaEscrito ==
    motivo \in {"esgotado", "erro_api"} =>
        /\ posicoes_novas = NoneLista
        /\ pc \in {"decidir", "fim"}
        /\ DadosComoAntes
        /\ EscritasDeDados = 0
        /\ pc = "fim" =>
              /\ retorno = posicoes_antigas
              /\ retorno = carregar_posicoes_existentes(antes.posicoes)

C2_Testemunha ==
    /\ pc = "fim"
    /\ motivo = "erro_api"
    /\ execucao = 2
    /\ antes.posicoes.estado = "json"
    /\ Len(retorno) = 2
    /\ antes.resumo.estado = "json"

C10_ContadorLimitado ==
    LET n == Len(eventos)
        teto == Evento("chamada", max_chamadas_por_minuto - 1)
    IN /\ contador_chamadas \in 0..(max_chamadas_por_minuto - 1)
       /\ \A i \in 1..n : eventos[i].ev = "chamada" =>
             /\ eventos[i].n \in 0..(max_chamadas_por_minuto - 1)
             /\ eventos[i] = teto => i < n /\ eventos[i + 1] = Evento("pausa", tempo_espera)
             /\ (eventos[i] # teto /\ i < n) => eventos[i + 1].ev # "pausa"
       /\ (n >= 2 /\ eventos[n - 1] = teto) => contador_chamadas = 0
       /\ (n >= 1 /\ eventos[n].ev = "chamada") => contador_chamadas = eventos[n].n + 1

C10_Testemunha ==
    /\ pc = "limitador"
    /\ Len(eventos) = 10
    /\ eventos[9] = Evento("chamada", max_chamadas_por_minuto - 1)
    /\ eventos[10] = Evento("pausa", tempo_espera)
    /\ contador_chamadas = 0

\* ---- C11 ----
\* The events of the history that are one HTTP request to the API.
EventosHTTP == {"sonda", "login_json", "login_form", "pedido_posicoes"}

\* The positions of the history after the last 62 second pause.
DesdeUltimaPausa(log) ==
    LET pausas == {i \in 1..Len(log) : log[i].ev = "pausa"}
    IN {i \in 1..Len(log) : \A j \in pausas : j < i}

ChamadasDesdePausa(log) ==
    Cardinality({i \in DesdeUltimaPausa(log) : log[i].ev \in EventosHTTP})

\* C11: every HTTP request of a run (probe, each login request, each bulk
\* request, answered or not) is counted by the rate limiter, so the counter
\* equals the number of requests sent since the last pause and at most
\* max_chamadas_por_minuto requests are sent between two pauses.
C11_TodaChamadaContada ==
    /\ contador_chamadas = ChamadasDesdePausa(eventos) % max_chamadas_por_minuto
    /\ ChamadasDesdePausa(eventos) <= max_chamadas_por_minuto

\* ---- C12 ----
\* The positions of the events named ev in the history.
Onde(log, ev) == {i \in 1..Len(log) : log[i].ev = ev}

\* The run has met no embedded API error so far: transport failures only.
SoFalhasDeTransporte ==
    Onde(eventos, "excesso_chamadas") = {} /\ Onde(eventos, "erro_api") = {}

\* C12: with transport failures only, at most 3 bulk requests are sent; a
\* failed first or second request is followed by the 5 second wait and then by
\* the next request, a failed third request by nothing; a list answer is
\* returned at once, and three failures return None.
C12_TresTentativasComEspera ==
    SoFalhasDeTransporte =>
      /\ Cardinality(Onde(eventos, "pedido_posicoes")) <= 3
      /\ \A i \in Onde(eventos, "falha_transporte") :
            /\ eventos[i - 1] = Evento("pedido_posicoes", eventos[i].n)
            /\ IF Cardinality({j \in Onde(eventos, "pedido_posicoes") : j < i}) < 3
               THEN /\ Len(eventos) > i /\ eventos[i + 1] = Evento("espera", 5)
                    /\ IF Len(eventos) > i + 1
                       THEN eventos[i + 2].ev = "pedido_posicoes"
                       ELSE pc = "buscar"
               ELSE /\ Len(eventos) = i
                    /\ motivo = "esgotado" /\ posicoes_novas = NoneLista
                    /\ pc \in {"decidir", "fim"}
      /\ \A i \in Onde(eventos, "espera") : eventos[i - 1].ev = "falha_transporte"
      /\ \A i \in Onde(eventos, "posicoes") :
            /\ eventos[i - 1].ev = "pedido_posicoes"
            /\ \A j \in Onde(eventos, "pedido_posicoes") \cup Onde(eventos, "espera") : j < i
            /\ motivo = "lista" /\ posicoes_novas = ultima_resposta
            /\ ~posicoes_novas.nulo
      /\ motivo = "esgotado" =>
            /\ Cardinality(Onde(eventos, "falha_transporte")) = 3
            /\ Cardinality(Onde(eventos, "espera")) = 2
            /\ posicoes_novas = NoneLista
      /\ (pc \in {"decidir", "fim"} /\ motivo # "sem_token") => motivo \in {"lista", "esgotado"}

\* Two failed requests, two waits, and the third request answers a list.
C12_Testemunha ==
    /\ SoFalhasDeTransporte
    /\ pc = "decidir" /\ motivo = "lista"
    /\ Cardinality(Onde(eventos, "falha_transporte")) = 2
    /\ Cardinality(Onde(eventos, "espera")) = 2
    /\ Len(posicoes_novas.lista) > 0

\* ---- C13 ----
\* The last bulk answer carries an embedded error that is not the rate-limit one.
OutroErroRecebido ==
    /\ ~ultima_resposta.nulo
    /\ Len(ultima_resposta.lista) > 0
    /\ "ErroProcessamento" \in DOMAIN ultima_resposta.lista[1]
    /\ ultima_resposta.lista[1].ErroProcessamento # "3S.1040"

\* C13: an embedded error other than 3S.1040 ends the fetch at once with None:
\* the answer is the last thing of the fetch, directly after its request, with
\* no pause, no wait and no further request, and the attempts left are not used.
C13_OutroErroTerminal ==
    OutroErroRecebido =>
      /\ pc \in {"decidir", "fim"}
      /\ posicoes_novas = NoneLista
      /\ motivo = "erro_api"
      /\ tentativa < max_tentativas
      /\ Len(eventos) >= 2
      /\ eventos[Len(eventos)] = Evento("erro_api", tentativa)
      /\ eventos[Len(eventos) - 1] = Evento("pedido_posicoes", tentativa)
      /\ Cardinality(Onde(eventos, "pedido_posicoes")) = tentativa + 1
      /\ Cardinality(Onde(eventos, "pausa")) = Cardinality(Onde(eventos, "excesso_chamadas"))

\* The error arrives on the second request, with one attempt still unused.
C13_Testemunha ==
    /\ OutroErroRecebido
    /\ tentativa = 1
    /\ pc = "fim"

\* ---- C14 ----
\* The login requests of the history.
PedidosDeLogin == Onde(eventos, "login_json") \cup Onde(eventos, "login_form")

\* obter_token has decided between the stored token and a login.
TokenDecidido == pc \notin {"parado", "carregar", "obter_token"}

\* C14: a stored token whose probe answers 200 is returned as it is, with no
\* login request and no write to the store; otherwise the stored token is
\* cleared before the first login request, and the store gets a token again
\* only from a login answer that carried one.
C14_TokenReusadoOuLimpo ==
    LET sondas == Onde(eventos, "sonda")
        limpar == Onde(eventos, "limpar_token")
        gravar == Onde(eventos, "gravar_token")
        logins == PedidosDeLogin
        valida == \E i \in sondas : eventos[i].n = 200
    IN /\ sondas # {} => Truthy(antes.token)
       /\ valida =>
             /\ Truthy(antes.token)
             /\ token = antes.token /\ env_token = antes.token
             /\ logins = {} /\ limpar = {} /\ gravar = {}
             /\ pc # "login"
       /\ (TokenDecidido /\ ~valida) =>
             /\ Cardinality(limpar) = 1
             /\ \A i \in logins \cup gravar : \A j \in limpar : j < i
             /\ Cardinality(gravar) <= 1
             /\ IF gravar = {}
                THEN env_token = "" /\ token = ""
                ELSE /\ env_token = "novo" /\ token = "novo"
                     /\ \A g \in gravar :
                           /\ eventos[g - 1] = Evento("resposta_token", eventos[g].n)
                           /\ (g - 2) \in logins

\* A stored token is refused by the probe, cleared, and replaced by a login.
C14_Testemunha ==
    /\ antes.token = "velho"
    /\ \E i \in Onde(eventos, "sonda") : eventos[i].n = 401
    /\ Onde(eventos, "gravar_token") # {}
    /\ env_token = "novo"
    /\ pc = "buscar"

\* ---- C15 ----
\* The place of a login request in the order JSON 1, form 1, JSON 2, form 2,
\* JSON 3, form 3.
Prioridade(e) == 2 * e.n + (IF e.ev = "login_form" THEN 1 ELSE 0)

\* C15: the login requests go out in the order JSON then form of payload 1, 2,
\* 3; the first answer with status 200 and a token ends the login: the token
\* is written to the store at once, no request follows and the token is the
\* result; when no answer carries a token the result is None and the login
\* has written nothing.
C15_LoginEmOrdem ==
    LET logins == PedidosDeLogin
        json == Onde(eventos, "login_json")
        form == Onde(eventos, "login_form")
        achou == Onde(eventos, "resposta_token")
        gravar == Onde(eventos, "gravar_token")
    IN /\ \A i, j \in logins : i < j => Prioridade(eventos[i]) < Prioridade(eventos[j])
       /\ \A i \in logins : eventos[i].n \in 1..3
       /\ \A i \in form : eventos[i - 1] = Evento("login_json", eventos[i].n)
       /\ \A i \in json :
             \/ eventos[i].n = 1
             \/ \E j \in json : j < i /\ eventos[j].n = eventos[i].n - 1
       /\ \A r \in achou :
             /\ (r - 1) \in logins /\ eventos[r - 1].n = eventos[r].n
             /\ \A i \in logins : i < r
             /\ Len(eventos) > r /\ eventos[r + 1] = Evento("gravar_token", eventos[r].n)
             /\ pc # "login"
             /\ token = "novo" /\ env_token = "novo"
       /\ \A g \in gravar : (g - 1) \in achou
       /\ (logins # {} /\ pc # "login" /\ achou = {}) =>
             /\ {eventos[i].n : i \in json} = 1..3
             /\ gravar = {}
             /\ env_token = "" /\ token = ""
             /\ motivo = "sem_token"
             /\ posicoes_novas = NoneLista
             /\ Onde(eventos, "pedido_posicoes") = {}

\* The fourth candidate, the form request of payload 2, is the first to get a token.
C15_Testemunha ==
    /\ \E r \in Onde(eventos, "resposta_token") :
          /\ eventos[r - 1] = Evento("login_form", 2)
          /\ eventos[r - 3] = Evento("login_form", 1)
    /\ Cardinality(PedidosDeLogin) = 4
    /\ pc = "buscar"

(***************************************************************************)
(* Properties of the map.                                                  *)
(***************************************************************************)
\* C16: every marker of the saved map has its colour and status from the
\* speed alone: green and "Em Movimento" when the record's speed is above 0,
\* red and "Parado" for any other speed, 0 and a missing field included.
C16_CorPelaVelocidade ==
    g_pc = "fim" =>
      LET plotados == SelectSeq(g_arquivo.dados, Plotado)
      IN /\ Len(g_mapa.marcadores) = Len(plotados)
         /\ \A k \in 1..Len(plotados) :
               IF "Velocidade" \in DOMAIN plotados[k] /\ plotados[k].Velocidade > 0
               THEN /\ g_mapa.marcadores[k].cor = "green"
                    /\ g_mapa.marcadores[k].status = "Em Movimento"
               ELSE /\ g_mapa.marcadores[k].cor = "red"
                    /\ g_mapa.marcadores[k].status = "Parado"

\* A map with a moving vehicle and a vehicle whose record has no speed.
C16_Testemunha ==
    /\ g_pc = "fim" /\ g_mapa.salvo
    /\ Len(g_arquivo.dados) = 2 /\ Len(g_mapa.marcadores) = 2
    /\ "Velocidade" \in DOMAIN g_arquivo.dados[1]
    /\ g_arquivo.dados[1].Velocidade = 40
    /\ "Velocidade" \notin DOMAIN g_arquivo.dados[2]
    /\ g_mapa.marcadores[1].cor = "green"
    /\ g_mapa.marcadores[2].cor = "red"

(***************************************************************************)
(* Order and counts of the merge.                                          *)
(***************************************************************************)
Primeiro(S) == CHOOSE i \in S : \A j \in S : i <= j

\* The record with key ka stands before the one with key kb: keys of the
\* existing list by first appearance there, then the keys only the incoming
\* list brings, by first appearance there.
VemAntes(antigas, novas, ka, kb) ==
    IF ComChave(antigas, ka) # {}
    THEN ComChave(antigas, kb) # {} =>
            Primeiro(ComChave(antigas, ka)) < Primeiro(ComChave(antigas, kb))
    ELSE /\ ComChave(antigas, kb) = {}
         /\ Primeiro(ComChave(novas, ka)) < Primeiro(ComChave(novas, kb))

\* C17: the merged list keeps the keys of the existing dataset in the order of
\* their first appearance there, replaced records included, and puts the keys
\* that only the incoming list has after them, in the order of their first
\* appearance in the incoming list.
C17_OrdemDoIndice ==
    m_pc = "mesclado" =>
      \A a, b \in 1..Len(m_saida.resultado) :
         a < b => VemAntes(m_antigas, m_novas,
                           obter_id_veiculo(m_saida.resultado[a]),
                           obter_id_veiculo(m_saida.resultado[b]))

\* The first of two existing records is replaced and stays first.
C17_Testemunha ==
    /\ m_pc = "mesclado"
    /\ Len(m_antigas) = 2 /\ Len(m_saida.resultado) = 2
    /\ m_saida.atualizados = 1
    /\ m_saida.resultado[1] # m_antigas[1]
    /\ m_saida.resultado[1] = m_novas[1]
    /\ m_saida.resultado[2] = m_antigas[2]

\* The truthy identifiers of the records of a list.
Chaves(posicoes) ==
    {k \in {obter_id_veiculo(posicoes[i]) : i \in 1..Len(posicoes)} : TruthyId(k)}

\* The positions of the records with a truthy identifier.
Chaveadas(posicoes) ==
    {i \in 1..Len(posicoes) : TruthyId(obter_id_veiculo(posicoes[i]))}

\* C18: the three counters partition the incoming records that have an
\* identifier: new are those whose key the index lacks, updated those whose
\* key is there with another content, kept those identical to the indexed
\* record; and the result has one record per existing key plus the new ones.
C18_ContagemParticiona ==
    m_pc = "mesclado" =>
      LET presentes == {i \in Chaveadas(m_novas) :
                          obter_id_veiculo(m_novas[i]) \in Chaves(m_antigas)}
          indexado(i) == m_antigas[Ultimo(ComChave(m_antigas, obter_id_veiculo(m_novas[i])))]
      IN /\ m_saida.novos + m_saida.atualizados + m_saida.mantidos
               = Cardinality(Chaveadas(m_novas))
         /\ Len(m_saida.resultado) = Cardinality(Chaves(m_antigas)) + m_saida.novos
         /\ m_saida.novos = Cardinality(Chaves(m_novas) \ Chaves(m_antigas))
         /\ ChavesUnicas(m_novas) =>
               /\ m_saida.novos = Cardinality(Chaveadas(m_novas) \ presentes)
               /\ m_saida.atualizados
                     = Cardinality({i \in presentes : m_novas[i] # indexado(i)})
               /\ m_saida.mantidos
                     = Cardinality({i \in presentes : m_novas[i] = indexado(i)})

\* One incoming record is identical to the indexed one, another brings a new key.
C18_Testemunha ==
    /\ m_pc = "mesclado"
    /\ Len(m_novas) = 2 /\ Len(m_antigas) = 1
    /\ m_saida.novos = 1 /\ m_saida.mantidos = 1 /\ m_saida.atualizados = 0
    /\ Len(m_saida.resultado) = 2

(***************************************************************************)
(* Order of the steps of a run.                                            *)
(***************************************************************************)
\* The step of processar_todas_posicoes an event of the history belongs to:
\* 1 load, 2 authenticate, 3 fetch, 4 merge, 5 write dataset, 6 write summary.
Passo(e) ==
    CASE e.ev = "carregar" -> 1
      [] e.ev \in {"sonda", "limpar_token", "login_json", "login_form",
                   "resposta_token", "gravar_token"} -> 2
      [] e.ev = "mesclar" -> 4
      [] e.ev = "escrever_posicoes" -> 5
      [] e.ev = "escrever_resumo" -> 6
      [] OTHER -> 3

\* C19: a run loads, authenticates, fetches, merges, writes the dataset and
\* writes the summary, in this order; the summary is written only after the
\* dataset of the same run; and after both writes the summary file is
\* gerar_resumo of the dataset file, which is the merge of the dataset loaded
\* at the start with the fetched records.
C19_OrdemDosPassos ==
    LET carregado == IF antes.posicoes.estado = "json" THEN antes.posicoes.dados ELSE <<>>
        passos == [i \in 1..Len(eventos) |-> Passo(eventos[i])]
    IN /\ eventos # <<>> => passos[1] = 1
       /\ \A i \in 2..Len(eventos) :
             \/ passos[i] = passos[i - 1] + 1
             \/ passos[i] = passos[i - 1] /\ passos[i] \in {2, 3}
       /\ (eventos # <<>> /\ passos[Len(eventos)] = 6) =>
             /\ pc = "fim"
             /\ arquivo_resumo = Arquivo(gerar_resumo(arquivo_posicoes.dados))
             /\ ~posicoes_novas.nulo
             /\ arquivo_posicoes
                   = Arquivo(mesclar_posicoes(carregado, posicoes_novas.lista).resultado)
             /\ retorno = arquivo_posicoes.dados

\* A run that found a dataset on disk has written both files, changing the dataset.
C19_Testemunha ==
    /\ pc = "fim"
    /\ Onde(eventos, "escrever_resumo") # {}
    /\ antes.posicoes.estado = "json"
    /\ arquivo_posicoes # antes.posicoes
    /\ Len(arquivo_posicoes.dados) = 2
    /\ Len(arquivo_resumo.dados) = 2

(***************************************************************************)
(* Termination of the fetch loop.                                          *)
(***************************************************************************)
\* An iteration of the while loop always ends: requests.get has timeout=30
\* and the sleeps are finite, so the loop takes its next step when it has one.
SpecJusta == Spec /\ WF_vars(BuscarPosicoes)

\* C20: the fetch loop ends whatever the API does: never more than
\* max_tentativas bulk requests are sent, the loop is never stuck while an
\* attempt remains, and every fetch that starts reaches its return, with a
\* record list or with None.
C20_BuscaTermina ==
    /\ [](Cardinality(Onde(eventos, "pedido_posicoes")) <= max_tentativas)
    /\ [](pc = "buscar" => tentativa < max_tentativas)
    /\ (pc = "buscar") ~>
          (/\ pc = "decidir"
           /\ motivo \in {"lista", "esgotado", "erro_api"}
           /\ (motivo = "lista") = ~posicoes_novas.nulo)

\* The API answers the rate-limit error to each of the three requests.
C20_Testemunha ==
    /\ pc = "decidir"
    /\ Cardinality(Onde(eventos, "excesso_chamadas")) = 3
    /\ Cardinality(Onde(eventos, "pedido_posicoes")) = 3
    /\ posicoes_novas = NoneLista
====
